---------------------------- MODULE Spec2Model ----------------------------
(***************************************************************************)
(* Snow-drift transport model (Tabler 2003) of the dashboard pages         *)
(*   src/streamlit/pages/C1_SnowDrift.py   (variant "C1")                  *)
(*   src/streamlit/pages/SnowDrift.py      (variant "SnowDrift")           *)
(*   src/streamlit/pages/8_SnowDrift.py    (variant "8")                   *)
(*                                                                         *)
(* Real numbers are exact rationals <<n, d>> in lowest terms with d > 0.   *)
(* Inputs are drawn from sets on which every operation of the code has an  *)
(* exact rational value: wind speeds are perfect fifth powers (u ** 3.8 =  *)
(* (u^(1/5))^19) and F is a multiple of T (0.14 ** (F / T) = (7/50)^k).    *)
(* Intermediate values are handed on as operator arguments, one operator   *)
(* per assignment of the code, so that each is evaluated once.             *)
(***************************************************************************)
EXTENDS Integers, Sequences, FiniteSets, TLC

VARIABLES
    pc,                 \* position of the run
    variant,            \* which page file's functions are running
    df,                 \* the hourly DataFrame handed to the compute functions
    T, F, theta,        \* FenceParameters
    Swe,                \* compute_snow_transport argument
    hourly_wind_speeds, \* compute_snow_transport / compute_sector_transport argument
    hourly_wind_dirs,   \* compute_sector_transport argument
    direction,          \* sector_index argument
    Qt_arg,             \* compute_fence_height argument Qt
    fence_type,         \* compute_fence_height argument / page selectbox
    yearly_df,          \* seasonal rows returned by the seasonal computation
    monthly_df,         \* monthly rows returned by the seasonal computation
    heights,            \* the page's fence height per seasonal row
    avg_sectors,        \* the page's compute_average_sector result
    frames,             \* the DataFrame objects, by reference
    dt_arg,             \* compute_Qupot argument
    session_state,      \* st.session_state of the browser session
    stored_by,          \* history: the page whose button stored clicked_coord
    page,               \* the page script of the latest run
    run_btn,            \* the run button's value in the latest run
    fetched,            \* whether the latest run called fetch_era5_hourly
    ret                 \* return value (or raised error) of a direct call

\* the variables of the browser session and its page runs
sessionVars == <<session_state, stored_by, page, run_btn, fetched>>

vars == <<pc, variant, df, T, F, theta, Swe, hourly_wind_speeds,
          hourly_wind_dirs, direction, Qt_arg, fence_type, yearly_df,
          monthly_df, heights, avg_sectors, frames, dt_arg, sessionVars, ret>>

-----------------------------------------------------------------------------
(* Exact rational arithmetic *)

Abs(x) == IF x < 0 THEN -x ELSE x

RECURSIVE GCD(_, _)
GCD(a, b) == IF b = 0 THEN a ELSE GCD(b, a % b)

Norm(n, d) ==
    LET Reduce(g) == <<n \div g, d \div g>>
    IN  Reduce(GCD(Abs(n), d))

R(n) == <<n, 1>>
Zero == <<0, 1>>
One == <<1, 1>>
Half == <<1, 2>>

RAdd(a, b) ==
    LET AddOver(l) == Norm(a[1] * (l \div a[2]) + b[1] * (l \div b[2]), l)
    IN  AddOver((a[2] \div GCD(a[2], b[2])) * b[2])

RSub(a, b) == RAdd(a, <<-b[1], b[2]>>)

RMul(a, b) ==
    LET MulCancel(g1, g2) ==
            Norm((a[1] \div g1) * (b[1] \div g2), (a[2] \div g2) * (b[2] \div g1))
    IN  MulCancel(GCD(Abs(a[1]), b[2]), GCD(Abs(b[1]), a[2]))

RDiv(a, b) == RMul(a, <<b[2], b[1]>>)

RFloor(a) == a[1] \div a[2]

\* a < b, comparing integer parts first so that the cross product stays small
RLess(a, b) ==
    LET LessFrom(fa, fb) ==
            IF fa # fb THEN fa < fb
            ELSE (a[1] - fa * a[2]) * b[2] < (b[1] - fb * b[2]) * a[2]
    IN  LessFrom(RFloor(a), RFloor(b))

RGt(a, b) == RLess(b, a)
RLeq(a, b) == ~RLess(b, a)
RGeq(a, b) == ~RLess(a, b)

RECURSIVE IntPow(_, _)
IntPow(b, e) == IF e = 0 THEN 1 ELSE b * IntPow(b, e - 1)

RECURSIVE RPow(_, _)
RPow(a, e) == IF e = 0 THEN One ELSE RMul(a, RPow(a, e - 1))

\* the sum of s[1..n], left to right
RECURSIVE RSumTo(_, _)
RSumTo(s, n) == IF n = 0 THEN Zero ELSE RAdd(RSumTo(s, n - 1), s[n])
RSum(s) == RSumTo(s, Len(s))

-----------------------------------------------------------------------------
(* Bounds and input sets *)

MaxWinds == 2

\* wind speeds [m/s]: perfect fifth powers, so that u ** 3.8 is an integer
WindValues == {0, 1, 32}

\* T and F [m]; every F is a multiple of every positive T
TArgValues == {0, 1, 2}
FValues == {2, 4}

\* relocation coefficient theta
ThetaValues == {<<1, 2>>, One}

\* Swe totals [mm] handed to compute_snow_transport directly
SweArgValues == {<<-1, 10>>, Zero, <<1, 10>>, <<800, 25983>>, <<1600, 25983>>}

Variants == {"C1", "SnowDrift", "8"}

SeqsUpTo(S, n) == UNION {[1..k -> S] : k \in 0..n}

NoValue == "-"

-----------------------------------------------------------------------------
(* Snow-drift core functions *)

DEFAULT_DT == 3600
QUPOT_DIVISOR == 233847

\* the r with r^5 = u, for the perfect fifth powers of WindValues
FifthRoot(u) == CHOOSE r \in 0..u : IntPow(r, 5) = u

\* u ** 3.8 = (u ** (1/5)) ** 19
Pow38(u) == IntPow(FifthRoot(u), 19)

\* one sample's term ((u ** 3.8) * dt) / 233_847
WindTerm(u, dt) == Norm(Pow38(u) * dt, QUPOT_DIVISOR)

\* the sum started at dt instead of 0: sum(..., dt) / 233_847
RECURSIVE QupotTo(_, _, _)
compute_Qupot_StartAtDt(ws, dt) ==
    RAdd(Norm(dt, QUPOT_DIVISOR), QupotTo(ws, dt, Len(ws)))

\* sum((u ** 3.8) * dt for u in hourly_wind_speeds) / 233_847; the division is
\* distributed over the sum, which is exact in rational arithmetic
QupotTo(ws, dt, n) ==
    IF n = 0 THEN Zero ELSE RAdd(QupotTo(ws, dt, n - 1), WindTerm(ws[n], dt))
compute_Qupot(ws, dt) == QupotTo(ws, dt, Len(ws))

\* the saturation factor with its operands swapped: 0.14 ** (F / T) - 1
Saturation_Swapped(f, t) == RSub(RPow(<<7, 50>>, f \div t), One)

\* the saturation written without the complement: 0.14 ** (F / T)
Saturation_Complement(f, t) == RPow(<<7, 50>>, f \div t)

\* 1 - 0.14 ** (F / T), for T > 0 dividing F
Saturation(f, t) == RSub(One, RPow(<<7, 50>>, f \div t))

\* F / T as a numpy division: F / 0 is inf (nan for F = 0) instead of an
\* error, 0.14 ** inf is 0 and the row is returned with Qt = Qinf (or nan)
TransportResult_NumpyDivide(t, f, Qupot, Qspot, Srwe, Qinf, control) ==
    [raised |-> "none", Qupot |-> Qupot, Qspot |-> Qspot, Srwe |-> Srwe,
     Qinf |-> Qinf, Control |-> control,
     Qt |-> IF t = 0 THEN (IF f = 0 THEN "nan" ELSE Qinf)
            ELSE RMul(Qinf, Saturation(f, t))]

\* the returned dict; Qt = Qinf * (1 - 0.14 ** (F / T)) raises for T = 0
TransportResult(t, f, Qupot, Qspot, Srwe, Qinf, control) ==
    IF t = 0
    THEN [raised |-> "ZeroDivisionError"]
    ELSE [raised |-> "none", Qupot |-> Qupot, Qspot |-> Qspot, Srwe |-> Srwe,
          Qinf |-> Qinf, Qt |-> RMul(Qinf, Saturation(f, t)), Control |-> control]

\* the regime branches with the snowfall branch using Swe (Qspot) for Srwe
RegimeBranch_C1_NoTheta(t, f, Qupot, Qspot, Srwe, snowfall) ==
    TransportResult(t, f, Qupot, Qspot, Srwe,
                    IF snowfall THEN Qspot ELSE Qupot,
                    IF snowfall THEN "Snowfall controlled" ELSE "Wind controlled")

\* the wind branch capped by the snowfall ceiling instead: Qinf = Qspot
RegimeBranch_C1_WindQspot(t, f, Qupot, Qspot, Srwe, snowfall) ==
    TransportResult(t, f, Qupot, Qspot, Srwe,
                    IF snowfall THEN RMul(RMul(Half, R(t)), Srwe) ELSE Qspot,
                    IF snowfall THEN "Snowfall controlled" ELSE "Wind controlled")

\* if Qupot > Qspot: Qinf = 0.5 * T * Srwe, "Snowfall controlled"
\* else:             Qinf = Qupot,          "Wind controlled"
RegimeBranch_C1(t, f, Qupot, Qspot, Srwe, snowfall) ==
    TransportResult(t, f, Qupot, Qspot, Srwe,
                    IF snowfall THEN RMul(RMul(Half, R(t)), Srwe) ELSE Qupot,
                    IF snowfall THEN "Snowfall controlled" ELSE "Wind controlled")

\* the regime test written >= instead of >
Regime_C1_TieSnowfall(t, f, Qupot, Qspot, Srwe) ==
    RegimeBranch_C1(t, f, Qupot, Qspot, Srwe, RGeq(Qupot, Qspot))

\* the regime test Qupot > Qspot
Regime_C1(t, f, Qupot, Qspot, Srwe) ==
    RegimeBranch_C1(t, f, Qupot, Qspot, Srwe, RGt(Qupot, Qspot))

\* compute_snow_transport of C1_SnowDrift.py and 8_SnowDrift.py
compute_snow_transport_C1(t, f, th, swe, ws) ==
    Regime_C1(t, f, compute_Qupot(ws, DEFAULT_DT), RMul(RMul(Half, R(t)), swe),
              RMul(th, swe))

\* SnowDrift.py: Qinf and Control are two conditional expressions, each with
\* its own test Qupot > Qspot
Regime_SD(t, f, Qupot, Qspot, Srwe) ==
    TransportResult(t, f, Qupot, Qspot, Srwe,
                    IF RGt(Qupot, Qspot) THEN RMul(RMul(Half, R(t)), Srwe) ELSE Qupot,
                    IF RGt(Qupot, Qspot) THEN "Snowfall controlled"
                    ELSE "Wind controlled")

\* compute_snow_transport of SnowDrift.py
compute_snow_transport_SD(t, f, th, swe, ws) ==
    Regime_SD(t, f, compute_Qupot(ws, DEFAULT_DT), RMul(RMul(Half, R(t)), swe),
              RMul(th, swe))

compute_snow_transport(v, t, f, th, swe, ws) ==
    IF v = "SnowDrift" THEN compute_snow_transport_SD(t, f, th, swe, ws)
    ELSE compute_snow_transport_C1(t, f, th, swe, ws)

-----------------------------------------------------------------------------
(* Direct calls of compute_snow_transport *)

InitTransport ==
    /\ pc = "call"
    /\ variant \in Variants
    /\ T \in TArgValues
    /\ F \in FValues
    /\ theta \in ThetaValues
    /\ Swe \in SweArgValues
    /\ hourly_wind_speeds \in SeqsUpTo(WindValues, MaxWinds)
    /\ df = <<>>
    /\ Qt_arg = Zero
    /\ fence_type = NoValue
    /\ yearly_df = <<>>
    /\ monthly_df = <<>>
    /\ heights = <<>>
    /\ hourly_wind_dirs = <<>>
    /\ direction = <<0, 0>>
    /\ avg_sectors = NoValue
    /\ frames = <<>>
    /\ dt_arg = DEFAULT_DT
    /\ session_state = <<>>
    /\ stored_by = NoValue
    /\ page = NoValue
    /\ run_btn = FALSE
    /\ fetched = FALSE
    /\ ret = NoValue

CallSnowTransport ==
    /\ pc = "call"
    /\ ret' = compute_snow_transport(variant, T, F, theta, Swe, hourly_wind_speeds)
    /\ pc' = "ret"
    /\ UNCHANGED <<variant, df, T, F, theta, Swe, hourly_wind_speeds, Qt_arg,
                   hourly_wind_dirs, direction, fence_type, yearly_df,
                   monthly_df, heights, avg_sectors, frames, dt_arg,
                   sessionVars>>

NextTransport == CallSnowTransport

SpecTransport == InitTransport /\ [][NextTransport]_vars

-----------------------------------------------------------------------------
(* Claims about compute_snow_transport (SpecTransport) *)

Returned == pc = "ret" /\ ret.raised = "none"

\* the smaller of two rationals
RMin(a, b) == IF RLess(b, a) THEN b ELSE a

\* 0.5 * T * x, written as one fraction
HalfT(x) == Norm(T * x[1], 2 * x[2])

\* C1: the regime is picked with a strict comparison. If Qupot > Qspot, with
\* Qspot = 0.5*T*Swe, the result is 'Snowfall controlled' with
\* Qinf = 0.5*T*theta*Swe; otherwise, the exact tie Qupot = Qspot included, it
\* is 'Wind controlled' with Qinf = Qupot. Label and Qinf branch always agree.
C1_RegimeStrict ==
    Returned =>
        /\ ret.Qspot = HalfT(Swe)
        /\ ret.Qupot = compute_Qupot(hourly_wind_speeds, DEFAULT_DT)
        /\ IF RLess(ret.Qspot, ret.Qupot)
           THEN /\ ret.Control = "Snowfall controlled"
                /\ ret.Qinf = HalfT(RMul(theta, Swe))
           ELSE /\ ret.Control = "Wind controlled"
                /\ ret.Qinf = ret.Qupot

\* C1 witness: a returned result on an exact non-zero tie Qupot = Qspot
C1_Witness ==
    /\ Returned
    /\ ret.Qupot = ret.Qspot
    /\ ret.Qupot # Zero
    /\ ret.Control = "Wind controlled"

InC2Domain ==
    /\ T > 0
    /\ RLess(Zero, theta) /\ RLeq(theta, One)
    /\ RLeq(Zero, Swe)
    /\ \A i \in 1..Len(hourly_wind_speeds) : hourly_wind_speeds[i] >= 0

\* C2 as stated: for T > 0, theta in (0,1], Swe >= 0 and non-negative wind,
\* Qinf = min(Qupot, 0.5*T*Srwe) with Srwe = theta*Swe.
C2_QinfIsMin ==
    (Returned /\ InC2Domain) =>
        ret.Qinf = RMin(ret.Qupot, HalfT(ret.Srwe))

\* the band between the relocatable ceiling and the snowfall ceiling
InBand == RLess(HalfT(ret.Srwe), ret.Qupot) /\ RLeq(ret.Qupot, ret.Qspot)

\* C2 amended: for T > 0, theta in (0,1], Swe >= 0 and non-negative wind,
\* Qinf = min(Qupot, 0.5*T*Srwe) except when 0.5*T*Srwe < Qupot <= Qspot,
\* where the wind-controlled branch returns Qinf = Qupot, the larger of the two.
C2_QinfIsMinOutsideBand ==
    (Returned /\ InC2Domain) =>
        /\ ret.Srwe = RMul(theta, Swe)
        /\ IF InBand
           THEN ret.Qinf = ret.Qupot
           ELSE ret.Qinf = RMin(ret.Qupot, HalfT(ret.Srwe))

\* C2 witness: a result strictly inside the band, where Qinf is not the minimum
C2_Witness ==
    /\ Returned /\ InC2Domain
    /\ InBand
    /\ RLess(ret.Qupot, ret.Qspot)
    /\ ret.Qinf = ret.Qupot

\* x is a finite number: a fraction of integers with a positive denominator
IsFinite(x) == x[1] \in Int /\ x[2] \in Nat \ {0}

\* C18: compute_snow_transport called with T = 0 fails with an error
\* (ZeroDivisionError, from F / T) and returns no result row, in every variant;
\* every row it does return, for T # 0, holds finite numbers only.
C18_ZeroTRaises ==
    pc = "ret" =>
        /\ T = 0 => ret = [raised |-> "ZeroDivisionError"]
        /\ T # 0 =>
              /\ ret.raised = "none"
              /\ \A x \in {ret.Qupot, ret.Qspot, ret.Srwe, ret.Qinf, ret.Qt} :
                     IsFinite(x)

\* C18 witness: a call with T = 0, wind and snow present, that raised
C18_Witness ==
    /\ pc = "ret"
    /\ T = 0
    /\ F > 0
    /\ hourly_wind_speeds # <<>>
    /\ RLess(Zero, Swe)
    /\ ret = [raised |-> "ZeroDivisionError"]

\* 1 - 0.14^(F/T) as a fraction, for the call's F and T
FetchFraction == RSub(One, RPow(<<7, 50>>, F \div T))

C25_QinfBelowCeilings ==
    (Returned /\ InC2Domain) =>
        /\ RLeq(ret.Qinf, ret.Qupot)
        /\ RLeq(ret.Qinf, ret.Qspot)

\* C25 witness: a snowfall-controlled result with theta = 0.5, where Qinf is
\* strictly below Qspot, which is strictly below Qupot
C25_Witness ==
    /\ Returned /\ InC2Domain
    /\ ret.Control = "Snowfall controlled"
    /\ theta = Half
    /\ RLess(Zero, ret.Qinf)
    /\ RLess(ret.Qinf, ret.Qspot)
    /\ RLess(ret.Qspot, ret.Qupot)

-----------------------------------------------------------------------------
(* compute_fence_height *)

\* strings handed to compute_fence_height are sequences of characters
UpperChars == <<"A", "B", "C", "D", "E", "F", "G", "H", "I", "J", "K", "L", "M",
                "N", "O", "P", "Q", "R", "S", "T", "U", "V", "W", "X", "Y", "Z">>
LowerChars == <<"a", "b", "c", "d", "e", "f", "g", "h", "i", "j", "k", "l", "m",
                "n", "o", "p", "q", "r", "s", "t", "u", "v", "w", "x", "y", "z">>

\* str.lower()
Lower(str) ==
    LET LowerChar(c) ==
            IF \E i \in 1..26 : UpperChars[i] = c
            THEN LowerChars[CHOOSE i \in 1..26 : UpperChars[i] = c]
            ELSE c
    IN  [i \in 1..Len(str) |-> LowerChar(str[i])]

S_wyoming == <<"w", "y", "o", "m", "i", "n", "g">>
S_slat_hyphen == <<"s", "l", "a", "t", "-", "a", "n", "d", "-", "w", "i", "r", "e">>
S_slat_space == <<"s", "l", "a", "t", " ", "a", "n", "d", " ", "w", "i", "r", "e">>
S_solid == <<"s", "o", "l", "i", "d">>

\* the fence types the page's selectbox offers
PageFenceTypes ==
    { <<"W", "y", "o", "m", "i", "n", "g">>,
      <<"S", "l", "a", "t", "-", "a", "n", "d", "-", "w", "i", "r", "e">>,
      <<"S", "o", "l", "i", "d">> }

FenceInputs ==
    PageFenceTypes \cup
    { S_wyoming,
      <<"W", "Y", "O", "M", "I", "N", "G">>,
      S_slat_hyphen,
      <<"S", "l", "a", "t", " ", "a", "n", "d", " ", "w", "i", "r", "e">>,
      S_slat_space,
      <<"S", "O", "L", "I", "D">>,
      <<>>,
      <<"w", "o", "o", "d">>,
      <<"s", "l", "a", "t", "_", "a", "n", "d", "_", "w", "i", "r", "e">>,
      <<"w", "y", "o", "m", "i", "n", "g", " ">> }

\* Qt [kg/m] handed to compute_fence_height directly
QtArgValues == {R(-1000), Zero, R(1000), R(7700), R(8500)}

\* x ** (1 / 2.2): the real number x^(5/11), defined for x >= 0 and one-to-one
\* there, kept as its radicand. For x < 0 no exception is raised: a Python
\* float gives a complex number, a numpy float64 gives nan (defined = FALSE)
Pow5over11(x) == [defined |-> RGeq(x, Zero), radicand |-> x]

\* the height with an offset of one under the power: (1 + Qt_tonnes / factor)
FenceHeight_Offset(Qt_tonnes, factor) ==
    [raised |-> "none", factor |-> factor,
     H |-> Pow5over11(RAdd(One, RDiv(Qt_tonnes, factor)))]

\* H = (Qt_tonnes / factor) ** (1 / 2.2)
FenceHeight(Qt_tonnes, factor) ==
    [raised |-> "none", factor |-> factor,
     H |-> Pow5over11(RDiv(Qt_tonnes, factor))]

\* the if/elif chain on ft = fence_type.lower()
FactorBranch_C1(Qt_tonnes, ft) ==
    IF ft = S_wyoming THEN FenceHeight(Qt_tonnes, Norm(85, 10))
    ELSE IF ft \in {S_slat_hyphen, S_slat_space} THEN FenceHeight(Qt_tonnes, Norm(77, 10))
    ELSE IF ft = S_solid THEN FenceHeight(Qt_tonnes, Norm(29, 10))
    ELSE [raised |-> "ValueError"]

\* compute_fence_height of C1_SnowDrift.py and 8_SnowDrift.py
compute_fence_height_C1(Qt, ftype) == FactorBranch_C1(RDiv(Qt, R(1000)), Lower(ftype))

\* factors = {"wyoming": 8.5, "slat-and-wire": 7.7, "solid": 2.9}
factors ==
    [k \in {S_wyoming, S_slat_hyphen, S_solid} |->
        IF k = S_wyoming THEN Norm(85, 10)
        ELSE IF k = S_slat_hyphen THEN Norm(77, 10)
        ELSE Norm(29, 10)]

\* factors.get(key, 8.5)
FactorsGet(key) == IF key \in DOMAIN factors THEN factors[key] ELSE Norm(85, 10)

\* compute_fence_height of SnowDrift.py
compute_fence_height_SD(Qt, ftype) ==
    FenceHeight(RDiv(Qt, R(1000)), FactorsGet(Lower(ftype)))

compute_fence_height(v, Qt, ftype) ==
    IF v = "SnowDrift" THEN compute_fence_height_SD(Qt, ftype)
    ELSE compute_fence_height_C1(Qt, ftype)

InitFence ==
    /\ pc = "call"
    /\ variant \in Variants
    /\ Qt_arg \in QtArgValues
    /\ fence_type \in FenceInputs
    /\ T = 1
    /\ F = 2
    /\ theta = One
    /\ Swe = Zero
    /\ hourly_wind_speeds = <<>>
    /\ df = <<>>
    /\ yearly_df = <<>>
    /\ monthly_df = <<>>
    /\ heights = <<>>
    /\ hourly_wind_dirs = <<>>
    /\ direction = <<0, 0>>
    /\ avg_sectors = NoValue
    /\ frames = <<>>
    /\ dt_arg = DEFAULT_DT
    /\ session_state = <<>>
    /\ stored_by = NoValue
    /\ page = NoValue
    /\ run_btn = FALSE
    /\ fetched = FALSE
    /\ ret = NoValue

CallFenceHeight ==
    /\ pc = "call"
    /\ ret' = compute_fence_height(variant, Qt_arg, fence_type)
    /\ pc' = "ret"
    /\ UNCHANGED <<variant, df, T, F, theta, Swe, hourly_wind_speeds, Qt_arg,
                   hourly_wind_dirs, direction, fence_type, yearly_df,
                   monthly_df, heights, avg_sectors, frames, dt_arg,
                   sessionVars>>

NextFence == CallFenceHeight

SpecFence == InitFence /\ [][NextFence]_vars

-----------------------------------------------------------------------------
(* Claims about compute_fence_height (SpecFence) *)

RecognizedSpellings == {S_wyoming, S_slat_hyphen, S_slat_space, S_solid}

\* C4: compute_fence_height fails with an explicit error for every fence_type
\* that is not one of the recognized spellings (case-insensitively), in every
\* variant of the function; it never falls back to a default factor.
C4_UnsupportedTypeRaises ==
    (pc = "ret" /\ Lower(fence_type) \notin RecognizedSpellings) =>
        ret.raised = "ValueError"

\* C5: the factor is selected by case-insensitive match: 'wyoming' -> 8.5,
\* 'slat-and-wire' and 'slat and wire' -> 7.7, 'solid' -> 2.9, and the two
\* slat spellings give the same height for every Qt, in every variant.
C5_FactorBySpelling ==
    (pc = "ret" /\ Lower(fence_type) \in RecognizedSpellings) =>
        /\ ret.raised = "none"
        /\ Lower(fence_type) = S_wyoming => ret.factor = Norm(85, 10)
        /\ Lower(fence_type) \in {S_slat_hyphen, S_slat_space} =>
              /\ ret.factor = Norm(77, 10)
              /\ ret.H = compute_fence_height(variant, Qt_arg, S_slat_hyphen).H
              /\ ret.H = compute_fence_height(variant, Qt_arg, S_slat_space).H
        /\ Lower(fence_type) = S_solid => ret.factor = Norm(29, 10)

\* C19 as stated: compute_fence_height called with a negative Qt does not
\* return a complex or NaN value silently; the call ends in an error.
C19_NegativeQtRaises ==
    (pc = "ret" /\ RLess(Qt_arg, Zero)) => ret.raised # "none"

\* C23: compute_fence_height returns 0 for Qt = 0 with every supported fence
\* type (any recognized spelling, in every variant): the power of 0 is 0.
C23_ZeroQtZeroHeight ==
    (pc = "ret" /\ Qt_arg = Zero /\ Lower(fence_type) \in RecognizedSpellings) =>
        /\ ret.raised = "none"
        /\ ret.H.defined
        /\ ret.H.radicand = Zero

\* C23 witness: compute_fence_height(0, "Wyoming") returned the height 0
C23_Witness ==
    /\ pc = "ret"
    /\ Qt_arg = Zero
    /\ fence_type = <<"W", "y", "o", "m", "i", "n", "g">>
    /\ ret.raised = "none"
    /\ ret.factor = <<17, 2>>
    /\ ret.H = [defined |-> TRUE, radicand |-> Zero]

-----------------------------------------------------------------------------
(* sector_index and compute_sector_transport (identical in the three pages) *)

(* A direction is the double c/100 + e * 2^-49, written <<c, e>>: c in       *)
(* hundredths of a degree, e in {-1, 0, 1} a count of 2^-49, the spacing of  *)
(* doubles between 8 and 16. e # 0 is used only with c a multiple of 25      *)
(* (a quarter degree, exact in binary); for other c, <<c, 0>> stands for the *)
(* double nearest c/100, which lies strictly inside a sector.                *)

\* the double nearest c/100 + e * 2^-49: from 16 upwards the spacing of doubles
\* is at least 2^-48 and the offset is rounded away (ties to even)
FloatRound(c, e) == IF e = 0 \/ Abs(c) < 1600 THEN <<c, e>> ELSE <<c, 0>>

\* direction + 11.25
Plus1125(d) == FloatRound(d[1] + 1125, d[2])

\* x % 360 on floats: fmod(x, 360) is exact, and a negative remainder has 360
\* added to it in floating point, which rounds -2^-49 + 360 to 360.0
FloatMod360(x) ==
    IF x[2] = 0 THEN <<x[1] % 36000, 0>>
    ELSE IF x[1] > 0 \/ (x[1] = 0 /\ x[2] > 0) THEN x
    ELSE FloatRound(x[1] + 36000, x[2])

\* int(r // 22.5) for r >= 0
FloorDiv225(r) ==
    IF r[2] < 0 /\ r[1] % 2250 = 0 THEN (r[1] \div 2250) - 1 ELSE r[1] \div 2250

\* int(((direction + 11.25) % 360) // 22.5)
sector_index(d) == FloorDiv225(FloatMod360(Plus1125(d)))

\* [0.0] * 16, sector k at position k + 1
ZeroSectors == [k \in 1..16 |-> Zero]

\* zip_longest instead of zip: missing speeds and directions are filled with 0
ZipPairs_Longest(ws, wd) ==
    [k \in 1..(IF Len(ws) > Len(wd) THEN Len(ws) ELSE Len(wd)) |->
        <<IF k <= Len(ws) THEN ws[k] ELSE 0,
          IF k <= Len(wd) THEN wd[k] ELSE <<0, 0>>>>]

\* zip(hourly_wind_speeds, hourly_wind_dirs): stops at the shorter sequence
ZipPairs(ws, wd) ==
    [k \in 1..(IF Len(ws) < Len(wd) THEN Len(ws) ELSE Len(wd)) |-> <<ws[k], wd[k]>>]

\* sectors[idx] += ((u ** 3.8) * dt) / 233_847; idx = 16 is past the end
RECURSIVE SectorLoop(_, _, _, _)
\* sectors[idx] = ... instead of +=: a later sample replaces an earlier one
SectorAdd_Overwrite(pairs, dt, k, sectors, idx) ==
    IF idx \notin 0..15 THEN [raised |-> "IndexError"]
    ELSE SectorLoop(pairs, dt, k + 1,
                    [sectors EXCEPT ![idx + 1] = WindTerm(pairs[k][1], dt)])

SectorAdd(pairs, dt, k, sectors, idx) ==
    IF idx \notin 0..15 THEN [raised |-> "IndexError"]
    ELSE SectorLoop(pairs, dt, k + 1,
                    [sectors EXCEPT ![idx + 1] = RAdd(@, WindTerm(pairs[k][1], dt))])

SectorLoop(pairs, dt, k, sectors) ==
    IF k > Len(pairs) THEN [raised |-> "none", sectors |-> sectors]
    ELSE SectorAdd(pairs, dt, k, sectors, sector_index(pairs[k][2]))

compute_sector_transport(ws, wd, dt) ==
    SectorLoop(ZipPairs(ws, wd), dt, 1, ZeroSectors)

-----------------------------------------------------------------------------
(* Direct calls of sector_index and compute_sector_transport *)

\* directions handed to sector_index: sector boundaries, their neighbours,
\* whole turns, negative directions, and the doubles just below -11.25, 0
\* and 11.25
DirectionValues ==
    {<<c, 0>> : c \in {-37125, -36000, -1125, -500, 0, 1124, 1125, 16875, 18000,
                       34874, 34875, 35500, 36000, 37125, 72000}}
    \cup {<<-1125, -1>>, <<0, -1>>, <<1125, -1>>}

\* directions of the hourly_wind_dirs lists: 0, 180, 360 and the double just
\* below -11.25
SectorDirValues == {<<0, 0>>, <<18000, 0>>, <<36000, 0>>, <<-1125, -1>>}

InitSector ==
    /\ pc = "call"
    /\ hourly_wind_speeds \in SeqsUpTo(WindValues, MaxWinds)
    /\ hourly_wind_dirs \in SeqsUpTo(SectorDirValues, MaxWinds)
    /\ direction \in DirectionValues
    /\ variant = "C1"
    /\ df = <<>>
    /\ T = 1
    /\ F = 2
    /\ theta = One
    /\ Swe = Zero
    /\ Qt_arg = Zero
    /\ fence_type = NoValue
    /\ yearly_df = <<>>
    /\ monthly_df = <<>>
    /\ heights = <<>>
    /\ avg_sectors = NoValue
    /\ frames = <<>>
    /\ dt_arg = DEFAULT_DT
    /\ session_state = <<>>
    /\ stored_by = NoValue
    /\ page = NoValue
    /\ run_btn = FALSE
    /\ fetched = FALSE
    /\ ret = NoValue

CallSectorIndex ==
    /\ pc = "call"
    /\ ret' = sector_index(direction)
    /\ pc' = "ret_index"
    /\ UNCHANGED <<variant, df, T, F, theta, Swe, hourly_wind_speeds,
                   hourly_wind_dirs, direction, Qt_arg, fence_type, yearly_df,
                   monthly_df, heights, avg_sectors, frames, dt_arg,
                   sessionVars>>

CallSectorTransport ==
    /\ pc = "call"
    /\ ret' = compute_sector_transport(hourly_wind_speeds, hourly_wind_dirs, DEFAULT_DT)
    /\ pc' = "ret_sectors"
    /\ UNCHANGED <<variant, df, T, F, theta, Swe, hourly_wind_speeds,
                   hourly_wind_dirs, direction, Qt_arg, fence_type, yearly_df,
                   monthly_df, heights, avg_sectors, frames, dt_arg,
                   sessionVars>>

NextSector == CallSectorIndex \/ CallSectorTransport

SpecSector == InitSector /\ [][NextSector]_vars

-----------------------------------------------------------------------------
(* Claims about sector_index and compute_sector_transport (SpecSector) *)

\* the real number m/100 + e * 2^-49 lies in the half-open arc
\* [22.5*k - 11.25, 22.5*k + 11.25)
InArcAt(m, e, k) ==
    /\ m > 2250 * k - 1125 \/ (m = 2250 * k - 1125 /\ e >= 0)
    /\ m < 2250 * k + 1125 \/ (m = 2250 * k + 1125 /\ e < 0)

\* direction d, taken modulo 360, lies in the arc of sector k
InArc(d, k) == \E j \in {-1, 0, 1} : InArcAt((d[1] % 36000) + 36000 * j, d[2], k)

\* C13 as stated: sector_index maps every direction d to the unique k in
\* 0..15 whose arc [22.5*k - 11.25, 22.5*k + 11.25) (mod 360) holds d mod 360;
\* 348.75 and everything up to but excluding 11.25 maps to 0, 11.25 to 1,
\* 348.74 to 15, and the result is never outside 0..15.
C13_SectorOfArc ==
    pc = "ret_index" =>
        /\ ret \in 0..15
        /\ \A k \in 0..15 : InArc(direction, k) <=> k = ret
        /\ direction \in {<<34875, 0>>, <<0, 0>>, <<1124, 0>>, <<1125, -1>>} => ret = 0
        /\ direction = <<1125, 0>> => ret = 1
        /\ direction = <<34874, 0>> => ret = 15

\* d + 360 on floats
Plus360(d) == FloatRound(d[1] + 36000, d[2])

\* C14 as stated: sector_index(d) = sector_index(d + 360) for every direction,
\* negative ones included; sector_index(360) = sector_index(0) = 0 and
\* sector_index(-5) = sector_index(355) = 0.
C14_Periodic ==
    pc = "ret_index" =>
        /\ ret = sector_index(Plus360(direction))
        /\ direction \in {<<36000, 0>>, <<0, 0>>, <<-500, 0>>, <<35500, 0>>} => ret = 0

\* the number of pairs zip yields
ShorterLen == IF Len(hourly_wind_speeds) < Len(hourly_wind_dirs)
              THEN Len(hourly_wind_speeds) ELSE Len(hourly_wind_dirs)

\* the transport of the first n pairs whose direction lies in the arc of sector k
RECURSIVE ArcTransport(_, _)
ArcTransport(k, n) ==
    IF n = 0 THEN Zero
    ELSE RAdd(ArcTransport(k, n - 1),
              IF InArc(hourly_wind_dirs[n], k)
              THEN Norm(Pow38(hourly_wind_speeds[n]) * 3600, 233847) ELSE Zero)

\* C20: compute_sector_transport given speed and direction lists of different
\* lengths (directions within 0..360) raises no error and accumulates exactly
\* the first min(len(speeds), len(directions)) pairs; the samples beyond the
\* shorter list add nothing to any sector.
C20_ZipTruncates ==
    (/\ pc = "ret_sectors"
     /\ \A i \in 1..ShorterLen :
           hourly_wind_dirs[i][2] = 0 /\ hourly_wind_dirs[i][1] \in 0..36000) =>
        /\ ret.raised = "none"
        /\ Len(ret.sectors) = 16
        /\ \A k \in 0..15 : ret.sectors[k + 1] = ArcTransport(k, ShorterLen)

\* C20 witness: two speeds and one direction; the second speed, a gale, is
\* dropped and only the first pair is in the result
C20_Witness ==
    /\ pc = "ret_sectors"
    /\ hourly_wind_speeds = <<1, 32>>
    /\ hourly_wind_dirs = <<<<18000, 0>>>>
    /\ ret.raised = "none"
    /\ ret.sectors[9] = <<400, 25983>>
    /\ \A k \in 1..16 : k # 9 => ret.sectors[k] = Zero

-----------------------------------------------------------------------------
(* The browser session: st.session_state and the pages that use             *)
(* session_state["clicked_coord"]                                            *)

\* the two map pages, with a "Store coordinate" button each
MapPages == {"A2_Map_and_Energy", "Map_and_Energy"}

\* the snow-drift pages that require the stored coordinate
GatedPages == {"C1_SnowDrift", "8_SnowDrift"}

\* the compute functions a snow-drift page runs
PageVariant(p) ==
    IF p = "C1_SnowDrift" THEN "C1" ELSE IF p = "8_SnowDrift" THEN "8" ELSE "SnowDrift"

\* (lat, lon) in hundredths of a degree; (65.0, 12.0) is the default of the
\* number inputs
CoordValues == {<<6500, 1200>>, <<6000, 1000>>}

\* Python's None, as session_state.get returns it for a missing key
None == <<>>

\* session_state.get(key)
SessionGet(s, key) == IF key \in DOMAIN s THEN s[key] ELSE None

\* session_state[key] = v
SessionSet(s, key, v) ==
    [k \in (DOMAIN s) \cup {key} |-> IF k = key THEN v ELSE s[k]]

\* the gate without its test: the page goes on without a coordinate
NoCoordinate_NeverStops(coord) == FALSE

\* if coord is None: st.warning(...); st.stop()
NoCoordinate(coord) == coord = None

-----------------------------------------------------------------------------
(* Seasonal and monthly computation *)

MaxLen == 2

\* timestamps <<year, month, day, hour, minute>> at the season boundaries
TimeValues ==
    { <<2020, 7, 1, 0, 0>>,
      <<2021, 6, 30, 23, 0>>,
      <<2021, 7, 1, 0, 0>> }

\* <<temperature_2m, precipitation>>, the temperature in tenths of a degree:
\* 0.1 mm at 0.5 degrees, 0.1 mm at exactly 1.0 degrees, and a negative
\* precipitation at 0.5 degrees, which the code does not reject
PageWeatherValues == {<<5, <<1, 10>>>>, <<10, <<1, 10>>>>, <<5, <<-1, 10>>>>}

\* rows of the hourly frame; windspeed_10m [m/s] is calm or a gale, and
\* winddirection_10m is north
Samples ==
    {[time |-> t, temperature_2m |-> w[1], precipitation |-> w[2],
      windspeed_10m |-> u, winddirection_10m |-> d] :
        t \in TimeValues, w \in PageWeatherValues, u \in {0, 32}, d \in {<<0, 0>>}}

\* the page's number_input and slider values for T, F and theta
TValues == {1, 2}
FPageValues == {2}
ThetaPageValues == {Half}

year(t) == t[1]
month(t) == t[2]

\* a <= b in the lexicographic order of timestamps, from field i on
RECURSIVE TimeLeqFrom(_, _, _)
TimeLeqFrom(a, b, i) ==
    IF i > Len(a) THEN TRUE
    ELSE IF a[i] # b[i] THEN a[i] < b[i]
    ELSE TimeLeqFrom(a, b, i + 1)

TimeLeq(a, b) == TimeLeqFrom(a, b, 1)

\* the season split with the boundary month off by one
season_year_FromJune(t) == IF month(t) >= 6 THEN year(t) ELSE year(t) - 1

\* lambda dt: dt.year if dt.month >= 7 else dt.year - 1
season_year(t) == IF month(t) >= 7 THEN year(t) ELSE year(t) - 1

\* the snow threshold with the boundary included: temperature_2m <= 1.0
Swe_hourly_Inclusive(row) == IF row.temperature_2m <= 10 THEN row.precipitation ELSE Zero

\* np.where(temperature_2m < 1.0, precipitation, 0.0)
Swe_hourly(row) == IF row.temperature_2m < 10 THEN row.precipitation ELSE Zero

\* the label without the increment of its second year
season_label_SameYear(s) == ToString(s) \o "-" \o ToString(s)

\* f"{s}-{s + 1}"
season_label(s) == ToString(s) \o "-" \o ToString(s + 1)

\* ascending sequence of a finite set of integers (groupby sorts its keys)
RECURSIVE SortedKeys(_)
SortedKeys(S) ==
    IF S = {} THEN <<>>
    ELSE <<CHOOSE x \in S : \A y \in S : x <= y>>
         \o SortedKeys(S \ {CHOOSE x \in S : \A y \in S : x <= y})

RECURSIVE Concat(_)
Concat(ss) == IF ss = <<>> THEN <<>> ELSE ss[1] \o Concat(Tail(ss))

\* the row numbers of d, in order
RowNumbers(d) == [i \in 1..Len(d) |-> i]

\* df_season["Swe_hourly"].sum() over the rows idx of d
RECURSIVE SumSweTo(_, _, _)
SumSweTo(d, idx, n) ==
    IF n = 0 THEN Zero ELSE RAdd(SumSweTo(d, idx, n - 1), Swe_hourly(d[idx[n]]))
SumSwe(d, idx) == SumSweTo(d, idx, Len(idx))

\* df_season["windspeed_10m"].tolist()
WindList(d, idx) == [k \in 1..Len(idx) |-> d[idx[k]].windspeed_10m]

\* one seasonal row: compute_snow_transport over the season's rows idx
YearRow(v, d, t, f, th, s, idx) ==
    [res |-> compute_snow_transport(v, t, f, th, SumSwe(d, idx), WindList(d, idx)),
     season |-> season_label(s),
     index |-> idx]

\* the month loop's body without its skip test
MonthRowOf_NoSkip(v, t, f, th, s, m, g, Swe_m, ws_m) ==
    <<[res |-> compute_snow_transport(v, t, f, th, Swe_m, ws_m),
       season |-> season_label(s),
       month |-> m,
       index |-> g]>>

\* the month loop's body with the skip test Swe_m < 1 (less than 1 mm)
MonthRowOf_SkipBelowOne(v, t, f, th, s, m, g, Swe_m, ws_m) ==
    IF RLess(Swe_m, One) \/ Len(ws_m) = 0 THEN <<>>
    ELSE <<[res |-> compute_snow_transport(v, t, f, th, Swe_m, ws_m),
            season |-> season_label(s),
            month |-> m,
            index |-> g]>>

\* the month loop's body: skipped when Swe_m == 0 or len(ws_m) == 0
MonthRowOf(v, t, f, th, s, m, g, Swe_m, ws_m) ==
    IF Swe_m = Zero \/ Len(ws_m) = 0 THEN <<>>
    ELSE <<[res |-> compute_snow_transport(v, t, f, th, Swe_m, ws_m),
            season |-> season_label(s),
            month |-> m,
            index |-> g]>>

MonthRow(v, d, t, f, th, s, m, g) ==
    MonthRowOf(v, t, f, th, s, m, g, SumSwe(d, g), WindList(d, g))

\* the months of a season in order of first occurrence (groupby(sort=False))
MonthKeys_FirstOccurrence(d, idx) ==
    LET first == SelectSeq([k \in 1..Len(idx) |-> k],
                     LAMBDA k : \A j \in 1..(k - 1) :
                                   month(d[idx[j]].time) # month(d[idx[k]].time))
    IN  [k \in 1..Len(first) |-> month(d[idx[first[k]]].time)]

\* the months of a season ordered from July to June
MonthKeys_JulyFirst(d, idx) ==
    LET ms == {month(d[idx[k]].time) : k \in 1..Len(idx)}
    IN  SortedKeys({m \in ms : m >= 7}) \o SortedKeys({m \in ms : m <= 6})

\* the keys of df_season.groupby("month"): ascending month number
MonthKeys(d, idx) == SortedKeys({month(d[idx[k]].time) : k \in 1..Len(idx)})

MonthRowsOver(v, d, t, f, th, s, idx, months) ==
    Concat([j \in 1..Len(months) |->
               MonthRow(v, d, t, f, th, s, months[j],
                        SelectSeq(idx, LAMBDA i : month(d[i].time) = months[j]))])

\* the monthly rows of one season
MonthRows(v, d, t, f, th, s, idx) ==
    MonthRowsOver(v, d, t, f, th, s, idx, MonthKeys(d, idx))

\* one pass of the season loop that skips a season without snow, as the month
\* loop skips a month
SeasonYearly_SkipZeroSwe(v, d, t, f, th, s, idx) ==
    IF idx = <<>> \/ SumSwe(d, idx) = Zero THEN <<>>
    ELSE <<YearRow(v, d, t, f, th, s, idx)>>

\* one pass of the season loop; an empty df_season is skipped
SeasonYearly(v, d, t, f, th, s, idx) ==
    IF idx = <<>> THEN <<>> ELSE <<YearRow(v, d, t, f, th, s, idx)>>

SeasonMonthly(v, d, t, f, th, s, idx) ==
    IF idx = <<>> THEN <<>> ELSE MonthRows(v, d, t, f, th, s, idx)

\* the seasons in order of first occurrence (groupby(sort=False) / unique())
SeasonKeys_FirstOccurrence(d) ==
    LET first == SelectSeq([k \in 1..Len(d) |-> k],
                     LAMBDA k : \A j \in 1..(k - 1) :
                                   season_year(d[j].time) # season_year(d[k].time))
    IN  [k \in 1..Len(first) |-> season_year(d[first[k]].time)]

\* the keys of df.groupby("season_year") / sorted(df["season"].unique())
SeasonKeys(d) == SortedKeys({season_year(d[i].time) : i \in 1..Len(d)})

\* the rows of the group of season s
GroupRows(d, s) == SelectSeq(RowNumbers(d), LAMBDA i : season_year(d[i].time) = s)

ResultsByGroup(v, d, t, f, th, keys) ==
    [yearly |-> Concat([j \in 1..Len(keys) |->
                    SeasonYearly(v, d, t, f, th, keys[j], GroupRows(d, keys[j]))]),
     monthly |-> Concat([j \in 1..Len(keys) |->
                    SeasonMonthly(v, d, t, f, th, keys[j], GroupRows(d, keys[j]))])]

\* compute_year_and_month_results of C1_SnowDrift.py and SnowDrift.py
compute_year_and_month_results(v, d, t, f, th) ==
    ResultsByGroup(v, d, t, f, th, SeasonKeys(d))

\* the window with its end at 30 June 00:00 (hour and minute left out)
WindowRows_EndMidnight(d, s) ==
    SelectSeq(RowNumbers(d),
              LAMBDA i : /\ TimeLeq(<<s, 7, 1, 0, 0>>, d[i].time)
                         /\ TimeLeq(d[i].time, <<s + 1, 6, 30, 0, 0>>))

\* the rows of the window [1 July s 00:00, 30 June s+1 23:59]
WindowRows(d, s) ==
    SelectSeq(RowNumbers(d),
              LAMBDA i : /\ TimeLeq(<<s, 7, 1, 0, 0>>, d[i].time)
                         /\ TimeLeq(d[i].time, <<s + 1, 6, 30, 23, 59>>))

ResultsByWindow(v, d, t, f, th, seasons) ==
    [yearly |-> Concat([j \in 1..Len(seasons) |->
                    SeasonYearly(v, d, t, f, th, seasons[j], WindowRows(d, seasons[j]))]),
     monthly |-> <<>>]

\* compute_yearly_results of 8_SnowDrift.py
compute_yearly_results(v, d, t, f, th) ==
    ResultsByWindow(v, d, t, f, th, SeasonKeys(d))

compute_results(v, d, t, f, th) ==
    IF v = "8" THEN compute_yearly_results(v, d, t, f, th)
    ELSE compute_year_and_month_results(v, d, t, f, th)

-----------------------------------------------------------------------------
(* compute_average_sector (identical in the three pages) *)

\* group["winddirection_10m"].tolist()
DirList(d, idx) == [k \in 1..Len(idx) |-> d[idx[k]].winddirection_10m]

\* the rows of a season that carry snow (Swe_hourly > 0)
SnowRows(d, idx) == SelectSeq(idx, LAMBDA i : RLess(Zero, Swe_hourly(d[i])))

\* one pass of the group loop, with the wind samples gated by snowfall
SeasonSectors_SnowGated(d, idx) ==
    compute_sector_transport(WindList(d, SnowRows(d, idx)),
                             DirList(d, SnowRows(d, idx)), DEFAULT_DT)

\* one pass of the group loop: the Swe_hourly column it adds is not read
SeasonSectors(d, idx) ==
    compute_sector_transport(WindList(d, idx), DirList(d, idx), DEFAULT_DT)

\* sectors_list after the first n passes of the group loop
RECURSIVE SectorsListTo(_, _, _)
SectorsListTo(d, keys, n) ==
    IF n = 0 THEN <<>>
    ELSE Append(SectorsListTo(d, keys, n - 1), SeasonSectors(d, GroupRows(d, keys[n])))

\* sectors_list
SectorsList(d, keys) == SectorsListTo(d, keys, Len(keys))

\* the sum of column k over the first n profiles
RECURSIVE ColumnSumTo(_, _, _)
ColumnSumTo(list, k, n) ==
    IF n = 0 THEN Zero ELSE RAdd(ColumnSumTo(list, k, n - 1), list[n].sectors[k])

\* np.mean(sectors_list, axis=0)
MeanOverSeasons(list) ==
    [k \in 1..16 |-> RDiv(ColumnSumTo(list, k, Len(list)), R(Len(list)))]

\* an empty sectors_list returned as an empty profile instead of np.zeros(16)
AverageOf_EmptyProfile(list) ==
    IF \E j \in 1..Len(list) : list[j].raised # "none" THEN [raised |-> "IndexError"]
    ELSE IF list = <<>> THEN [raised |-> "none", profile |-> <<>>]
    ELSE [raised |-> "none", profile |-> MeanOverSeasons(list)]

\* if not sectors_list: return np.zeros(16); an IndexError of a pass leaves
\* the function
AverageOf(list) ==
    IF \E j \in 1..Len(list) : list[j].raised # "none" THEN [raised |-> "IndexError"]
    ELSE IF list = <<>> THEN [raised |-> "none", profile |-> ZeroSectors]
    ELSE [raised |-> "none", profile |-> MeanOverSeasons(list)]

\* the sum of column k over the first n profiles, each weighted by the number
\* of samples of its season
RECURSIVE WeightedColumnSumTo(_, _, _, _, _)
WeightedColumnSumTo(d, keys, list, k, n) ==
    IF n = 0 THEN Zero
    ELSE RAdd(WeightedColumnSumTo(d, keys, list, k, n - 1),
              RMul(R(Len(GroupRows(d, keys[n]))), list[n].sectors[k]))

\* the mean of the season profiles weighted by sample count
compute_average_sector_SampleWeighted(d) ==
    IF d = <<>> THEN [raised |-> "none", profile |-> ZeroSectors]
    ELSE [raised |-> "none",
          profile |-> [k \in 1..16 |->
              RDiv(WeightedColumnSumTo(d, SeasonKeys(d), SectorsList(d, SeasonKeys(d)),
                                       k, Len(SeasonKeys(d))),
                   R(Len(d)))]]

compute_average_sector(d) == AverageOf(SectorsList(d, SeasonKeys(d)))

-----------------------------------------------------------------------------
(* The page run: compute, then filter the seasons and size the fence *)

\* <<start_year, end_year>> of the page's season range
YearRanges == {<<2020, 2020>>}

Init ==
    /\ pc = "run"
    /\ variant \in Variants
    /\ df \in SeqsUpTo(Samples, MaxLen)
    /\ T = 1
    /\ F = 2
    /\ theta = One
    /\ Swe = Zero
    /\ hourly_wind_speeds = <<>>
    /\ hourly_wind_dirs = <<>>
    /\ direction = <<0, 0>>
    /\ Qt_arg = Zero
    /\ fence_type = NoValue
    /\ yearly_df = <<>>
    /\ monthly_df = <<>>
    /\ heights = <<>>
    /\ avg_sectors = NoValue
    /\ frames = <<>>
    /\ dt_arg = DEFAULT_DT
    /\ session_state = SessionSet(<<>>, "clicked_coord", <<6500, 1200>>)
    /\ stored_by = "A2_Map_and_Energy"
    /\ page \in {p \in GatedPages \cup {"SnowDrift"} : PageVariant(p) = variant}
    /\ run_btn = TRUE
    /\ fetched = TRUE
    /\ ret = NoValue

StoreResults(t, f, th, out) ==
    /\ T' = t
    /\ F' = f
    /\ theta' = th
    /\ yearly_df' = out.yearly
    /\ monthly_df' = out.monthly

\* the widgets' T, F and theta are read and the seasonal computation runs; the
\* C1 and 8 pages stop on an empty met_df before computing; the SnowDrift.py
\* page computes the wind rose right after the seasonal results
ComputeResults ==
    /\ pc = "run"
    /\ IF variant # "SnowDrift" /\ df = <<>>
       THEN /\ pc' = "stopped"
            /\ UNCHANGED <<T, F, theta, yearly_df, monthly_df, avg_sectors>>
       ELSE /\ avg_sectors' = IF variant = "SnowDrift"
                              THEN compute_average_sector(df) ELSE avg_sectors
            /\ \E t \in TValues, f \in FPageValues, th \in ThetaPageValues :
                  StoreResults(t, f, th, compute_results(variant, df, t, f, th))
            /\ pc' = "computed"
    /\ UNCHANGED <<variant, df, Swe, hourly_wind_speeds, hourly_wind_dirs,
                   direction, Qt_arg, fence_type, heights, frames, dt_arg,
                   sessionVars, ret>>

\* yearly_df.loc[mask], where LabelStart is int(s.split("-")[0]), the year
\* whose label this is; the SnowDrift.py page does not filter
FilterSeasons(v, rows, range) ==
    LET LabelStart(label) ==
            CHOOSE s \in {season_year(t) : t \in TimeValues} : season_label(s) = label
        InRange(s) == s >= range[1] /\ s <= range[2]
    IN  IF v = "SnowDrift" THEN rows
        ELSE SelectSeq(rows, LAMBDA r : InRange(LabelStart(r.season)))

\* where the page stands after the filter: the C1 and 8 pages stop on an
\* empty yearly_df, the SnowDrift.py page reads a column it does not have
AfterFilter(v, kept) ==
    IF kept # <<>> THEN "done"
    ELSE IF v = "SnowDrift" THEN "KeyError" ELSE "stopped"

StoreHeights(ft, kept) ==
    /\ fence_type' = ft
    /\ yearly_df' = kept
    /\ heights' = [i \in 1..Len(kept) |->
                      compute_fence_height(variant, kept[i].res.Qt, ft)]
    /\ pc' = AfterFilter(variant, kept)

\* the seasons are filtered to the chosen range, the C1 and 8 pages compute
\* the wind rose, and compute_fence_height runs on every remaining seasonal row
FenceHeightLoop ==
    /\ pc = "computed"
    /\ avg_sectors' = IF variant = "SnowDrift"
                      THEN avg_sectors ELSE compute_average_sector(df)
    /\ \E ft \in PageFenceTypes, range \in YearRanges :
          StoreHeights(ft, FilterSeasons(variant, yearly_df, range))
    /\ UNCHANGED <<variant, df, T, F, theta, Swe, hourly_wind_speeds,
                   hourly_wind_dirs, direction, Qt_arg, monthly_df, frames, dt_arg,
                   sessionVars, ret>>

Next == ComputeResults \/ FenceHeightLoop

Spec == Init /\ [][Next]_vars

-----------------------------------------------------------------------------
(* Claims about the seasonal computation (Spec) *)

Range(s) == {s[i] : i \in 1..Len(s)}

\* the season of a timestamp, spelled out from the calendar
CalendarSeason(t) == IF t[2] \in 7..12 THEN t[1] ELSE t[1] - 1

\* the label of the season starting in year y
ExpectedLabel(y) == ToString(y) \o "-" \o ToString(y + 1)

\* the snow water equivalent of input row i: precipitation below 1.0 degrees
RowSwe(i) == IF df[i].temperature_2m < 10 THEN df[i].precipitation ELSE Zero

\* the total of RowSwe over a set of input rows
RECURSIVE SweOver(_)
SweOver(I) ==
    IF I = {} THEN Zero
    ELSE RAdd(RowSwe(CHOOSE i \in I : TRUE), SweOver(I \ {CHOOSE i \in I : TRUE}))

\* the input rows of one month of one season
MonthGroup(y, m) ==
    {i \in 1..Len(df) : CalendarSeason(df[i].time) = y /\ df[i].time[2] = m}

AllRows == [i \in 1..(Len(yearly_df) + Len(monthly_df)) |->
               IF i <= Len(yearly_df) THEN yearly_df[i]
               ELSE monthly_df[i - Len(yearly_df)]]

\* C3 as stated: with non-negative wind, T > 0, F > 0 and theta in (0,1]
\* (precipitation not validated) every seasonal and monthly row has Qt >= 0,
\* so every fence height is computed from a non-negative Qt.
C3_QtNeverNegative ==
    /\ pc = "computed" =>
          \A i \in 1..Len(AllRows) : RGeq(AllRows[i].res.Qt, Zero)
    /\ pc = "done" =>
          \A i \in 1..Len(heights) : heights[i].H.defined

\* C3 amended: negative Qt occurs only with a negative Swe total. With
\* non-negative wind, T > 0, F > 0 and theta in (0,1], a seasonal or monthly
\* row has Qt >= 0 exactly when the Swe total of its rows is >= 0; so with
\* non-negative precipitation every emitted row has Qt >= 0 and every fence
\* height is computed from a non-negative Qt.
C3_QtNegativeOnlyForNegativeSwe ==
    /\ pc = "computed" =>
          \A i \in 1..Len(AllRows) :
              RGeq(AllRows[i].res.Qt, Zero) <=> RGeq(SweOver(Range(AllRows[i].index)), Zero)
    /\ pc = "done" =>
          \A i \in 1..Len(heights) :
              /\ heights[i].raised = "none"
              /\ heights[i].H.defined <=> RGeq(SweOver(Range(yearly_df[i].index)), Zero)
    /\ (pc \in {"computed", "done"}
          /\ \A k \in 1..Len(df) : RGeq(df[k].precipitation, Zero)) =>
          /\ \A i \in 1..Len(AllRows) : RGeq(AllRows[i].res.Qt, Zero)
          /\ \A i \in 1..Len(heights) : heights[i].H.defined

\* C3 witness: a finished run on non-negative precipitation with a positive
\* Qt and its fence height
C3_Witness ==
    /\ pc = "done"
    /\ \A k \in 1..Len(df) : RGeq(df[k].precipitation, Zero)
    /\ \E i \in 1..Len(heights) :
          /\ RLess(Zero, yearly_df[i].res.Qt)
          /\ heights[i].H.defined
          /\ RLess(Zero, heights[i].H.radicand)
    /\ monthly_df # <<>>

\* C6: a month whose summed Swe is zero is absent from the monthly results:
\* every emitted monthly row has a non-zero monthly Swe total, and no row
\* exists for a month group whose Swe total is zero.
C6_ZeroSweMonthOmitted ==
    pc = "computed" =>
        /\ \A i \in 1..Len(monthly_df) :
              /\ SweOver(Range(monthly_df[i].index)) # Zero
              /\ monthly_df[i].res.Qspot # Zero
        /\ \A y \in {CalendarSeason(t) : t \in TimeValues}, m \in 1..12 :
              (MonthGroup(y, m) # {} /\ SweOver(MonthGroup(y, m)) = Zero) =>
                  ~\E i \in 1..Len(monthly_df) :
                        /\ monthly_df[i].season = ExpectedLabel(y)
                        /\ monthly_df[i].month = m

\* C6 witness: one month has all its precipitation at 1.0 degrees and no row,
\* while another month of the same run has a row
C6_Witness ==
    /\ pc = "computed"
    /\ Len(monthly_df) = 1
    /\ \E k \in 1..Len(df) :
          /\ df[k].temperature_2m >= 10
          /\ RLess(Zero, df[k].precipitation)
          /\ \A j \in 1..Len(df) : df[j].time = df[k].time => df[j].temperature_2m >= 10
          /\ ~\E i \in 1..Len(monthly_df) : k \in Range(monthly_df[i].index)

\* position of a calendar month in the July-June season: July 0, ..., June 11
SeasonPos(m) == (m + 5) % 12

\* C7 as stated: within each season the monthly results come in
\* chronological order of the July-June season (July first, June last).
C7_MonthsChronological ==
    pc = "computed" =>
        \A i, j \in 1..Len(monthly_df) :
            (i < j /\ monthly_df[i].season = monthly_df[j].season) =>
                SeasonPos(monthly_df[i].month) < SeasonPos(monthly_df[j].month)

\* C7 amended: within each season the monthly results come in ascending
\* calendar month number, so the January-June months (of season_year+1) come
\* before the July-December months (of season_year); the order is
\* chronological only within each of these two halves.
C7_MonthsChronologicalWithinHalves ==
    pc = "computed" =>
        \A i, j \in 1..Len(monthly_df) :
            (i < j /\ monthly_df[i].season = monthly_df[j].season) =>
                IF (monthly_df[i].month >= 7) = (monthly_df[j].month >= 7)
                THEN SeasonPos(monthly_df[i].month) < SeasonPos(monthly_df[j].month)
                ELSE monthly_df[i].month <= 6 /\ monthly_df[j].month >= 7

\* C7 witness: June of season_year+1 is emitted before July of season_year
C7_Witness ==
    /\ pc = "computed"
    /\ Len(monthly_df) = 2
    /\ monthly_df[1].season = monthly_df[2].season
    /\ monthly_df[1].month = 6
    /\ monthly_df[2].month = 7

\* C8: within each season the monthly results come in ascending calendar
\* month number, whatever the order in which the months first occur in the
\* input.
C8_MonthsAscending ==
    pc = "computed" =>
        \A i \in 1..(Len(monthly_df) - 1) :
            monthly_df[i].season = monthly_df[i + 1].season =>
                monthly_df[i].month < monthly_df[i + 1].month

\* C8 witness: the input has the later month number first, the output has it
\* last
C8_Witness ==
    /\ pc = "computed"
    /\ Len(df) = 2
    /\ df[1].time[2] > df[2].time[2]
    /\ Len(monthly_df) = 2
    /\ monthly_df[1].index = <<2>>
    /\ monthly_df[2].index = <<1>>
    /\ monthly_df[1].month < monthly_df[2].month

\* C9: every hourly sample is assigned to exactly one season, season_year =
\* year if month >= 7 else year - 1: 30 June of Y+1 and 1 July of Y belong to
\* season Y, 1 July of Y+1 to season Y+1, and each sample contributes to
\* exactly one seasonal result.
C9_OneSeasonPerSample ==
    pc = "computed" =>
        \A k \in 1..Len(df) :
            /\ Cardinality({i \in 1..Len(yearly_df) : k \in Range(yearly_df[i].index)}) = 1
            /\ \A i \in 1..Len(yearly_df) :
                  k \in Range(yearly_df[i].index) =>
                      /\ yearly_df[i].season = ExpectedLabel(CalendarSeason(df[k].time))
                      /\ df[k].time = <<2020, 7, 1, 0, 0>> => yearly_df[i].season = "2020-2021"
                      /\ df[k].time = <<2021, 6, 30, 23, 0>> => yearly_df[i].season = "2020-2021"
                      /\ df[k].time = <<2021, 7, 1, 0, 0>> => yearly_df[i].season = "2021-2022"

\* C9 witness: the last hour of 30 June and the first hour of 1 July of the
\* same year land in two different seasonal results
C9_Witness ==
    /\ pc = "computed"
    /\ \E a, b \in 1..Len(df) :
          /\ df[a].time = <<2021, 6, 30, 23, 0>>
          /\ df[b].time = <<2021, 7, 1, 0, 0>>
    /\ Len(yearly_df) = 2
    /\ yearly_df[1].season = "2020-2021"
    /\ yearly_df[2].season = "2021-2022"

\* C10: exactly one seasonal result per distinct season_year present in the
\* input, none for a season without samples, labelled
\* '<season_year>-<season_year+1>'; a series spanning exactly 1 July Y to
\* 30 June Y+1 yields exactly one result, labelled 'Y-(Y+1)'.
C10_OneResultPerSeason ==
    pc = "computed" =>
        /\ Len(yearly_df) = Cardinality({CalendarSeason(df[k].time) : k \in 1..Len(df)})
        /\ {yearly_df[i].season : i \in 1..Len(yearly_df)}
              = {ExpectedLabel(CalendarSeason(df[k].time)) : k \in 1..Len(df)}
        /\ ({df[k].time : k \in 1..Len(df)} = {<<2020, 7, 1, 0, 0>>, <<2021, 6, 30, 23, 0>>}) =>
              /\ Len(yearly_df) = 1
              /\ yearly_df[1].season = "2020-2021"

\* C10 witness: a series from 1 July 2020 to 30 June 2021 with its single
\* result
C10_Witness ==
    /\ pc = "computed"
    /\ Len(df) = 2
    /\ df[1].time = <<2020, 7, 1, 0, 0>>
    /\ df[2].time = <<2021, 6, 30, 23, 0>>
    /\ Len(yearly_df) = 1
    /\ yearly_df[1].season = "2020-2021"
    /\ yearly_df[1].index = <<1, 2>>

\* C11: seasonal results are emitted in ascending season_year order, whatever
\* the order of the input rows: each seasonal row starts a later season than
\* the row before it.
C11_SeasonsAscending ==
    pc = "computed" =>
        \A i \in 1..(Len(yearly_df) - 1) :
            \E y1, y2 \in {CalendarSeason(t) : t \in TimeValues} :
                /\ yearly_df[i].season = ExpectedLabel(y1)
                /\ yearly_df[i + 1].season = ExpectedLabel(y2)
                /\ y1 < y2

\* C11 witness: the input has the later season first, the output has it last
C11_Witness ==
    /\ pc = "computed"
    /\ Len(df) = 2
    /\ df[1].time = <<2021, 7, 1, 0, 0>>
    /\ df[2].time = <<2020, 7, 1, 0, 0>>
    /\ Len(yearly_df) = 2
    /\ yearly_df[1].season = "2020-2021" /\ yearly_df[1].index = <<2>>
    /\ yearly_df[2].season = "2021-2022" /\ yearly_df[2].index = <<1>>

\* C12: hourly Swe is the hour's precipitation when temperature_2m is strictly
\* below 1.0 and 0 otherwise, so an hour at exactly 1.0 adds nothing: the Swe
\* total behind every seasonal and monthly row (Qspot = 0.5*T*Swe,
\* Srwe = theta*Swe) is the precipitation of its hours below 1.0.
C12_SweStrictlyBelowOne ==
    pc = "computed" =>
        \A i \in 1..Len(AllRows) :
            /\ AllRows[i].res.Qspot = HalfT(SweOver(Range(AllRows[i].index)))
            /\ AllRows[i].res.Srwe = RMul(theta, SweOver(Range(AllRows[i].index)))

\* C12 witness: a season with one hour at 0.5 degrees and one at exactly 1.0,
\* both with precipitation 0.1, whose Swe total is 0.1
C12_Witness ==
    /\ pc = "computed"
    /\ T = 2
    /\ Len(df) = 2
    /\ df[1].temperature_2m = 5 /\ df[1].precipitation = <<1, 10>>
    /\ df[2].temperature_2m = 10 /\ df[2].precipitation = <<1, 10>>
    /\ Len(yearly_df) = 1
    /\ yearly_df[1].index = <<1, 2>>
    /\ yearly_df[1].res.Qspot = <<1, 10>>

\* the sum of Srwe over the first n monthly rows that carry the season label
RECURSIVE MonthlySrweTo(_, _)
MonthlySrweTo(label, n) ==
    IF n = 0 THEN Zero
    ELSE RAdd(MonthlySrweTo(label, n - 1),
              IF monthly_df[n].season = label THEN monthly_df[n].res.Srwe ELSE Zero)

\* C27: in the pages that compute monthly rows, for every season with
\* non-negative precipitation the Srwe of the emitted monthly rows of that
\* season sums to the seasonal row's Srwe, and a month group of the input
\* that has no monthly row has a Swe total of zero (every group has wind
\* samples, so none is omitted for lack of them).
C27_MonthsPartitionSeason ==
    (pc = "computed" /\ variant # "8") =>
        /\ \A i \in 1..Len(yearly_df) :
              (\A k \in Range(yearly_df[i].index) : RGeq(df[k].precipitation, Zero)) =>
                  /\ yearly_df[i].res.Srwe = RMul(theta, SweOver(Range(yearly_df[i].index)))
                  /\ MonthlySrweTo(yearly_df[i].season, Len(monthly_df))
                        = yearly_df[i].res.Srwe
        /\ \A y \in {CalendarSeason(t) : t \in TimeValues}, m \in 1..12 :
              (/\ MonthGroup(y, m) # {}
               /\ ~\E i \in 1..Len(monthly_df) :
                      /\ monthly_df[i].season = ExpectedLabel(y)
                      /\ monthly_df[i].month = m) =>
                  SweOver(MonthGroup(y, m)) = Zero

\* C27 witness: a season with snow in July and in June: two monthly rows,
\* each with half of the seasonal Srwe
C27_Witness ==
    /\ pc = "computed"
    /\ variant = "C1"
    /\ Len(yearly_df) = 1
    /\ Len(monthly_df) = 2
    /\ monthly_df[1].month = 6 /\ monthly_df[2].month = 7
    /\ RLess(Zero, monthly_df[1].res.Srwe)
    /\ monthly_df[1].res.Srwe = monthly_df[2].res.Srwe
    /\ yearly_df[1].res.Srwe = RAdd(monthly_df[1].res.Srwe, monthly_df[2].res.Srwe)

SeasonGroup(y) == {i \in 1..Len(df) : CalendarSeason(df[i].time) = y}

\* C29: a season whose total Swe is zero is still emitted as a seasonal row;
\* it has Qspot = 0, Srwe = 0, Qinf = 0 and Qt = 0 whatever the wind, and its
\* Control is 'Snowfall controlled' if any wind sample is positive and
\* 'Wind controlled' if all wind samples are zero.
C29_ZeroSweSeasonEmitted ==
    pc = "computed" =>
        /\ \A y \in {CalendarSeason(t) : t \in TimeValues} :
              (SeasonGroup(y) # {} /\ SweOver(SeasonGroup(y)) = Zero) =>
                  \E i \in 1..Len(yearly_df) :
                      /\ yearly_df[i].season = ExpectedLabel(y)
                      /\ Range(yearly_df[i].index) = SeasonGroup(y)
        /\ \A i \in 1..Len(yearly_df) :
              SweOver(Range(yearly_df[i].index)) = Zero =>
                  /\ yearly_df[i].res.Qspot = Zero
                  /\ yearly_df[i].res.Srwe = Zero
                  /\ yearly_df[i].res.Qinf = Zero
                  /\ yearly_df[i].res.Qt = Zero
                  /\ yearly_df[i].res.Control =
                        IF \E k \in Range(yearly_df[i].index) : df[k].windspeed_10m > 0
                        THEN "Snowfall controlled" ELSE "Wind controlled"

\* C29 witness: a season whose only precipitation falls at 1.0 degrees, with
\* a gale and a calm hour: one seasonal row, all zero, snowfall controlled,
\* and no monthly row
C29_Witness ==
    /\ pc = "computed"
    /\ variant = "C1"
    /\ Len(df) = 2
    /\ \A k \in 1..2 : df[k].temperature_2m = 10 /\ RLess(Zero, df[k].precipitation)
    /\ df[1].time = df[2].time
    /\ df[1].windspeed_10m = 32 /\ df[2].windspeed_10m = 0
    /\ Len(yearly_df) = 1
    /\ monthly_df = <<>>
    /\ yearly_df[1].res.Qt = Zero
    /\ RLess(Zero, yearly_df[1].res.Qupot)
    /\ yearly_df[1].res.Control = "Snowfall controlled"

-----------------------------------------------------------------------------
(* Direct calls of compute_average_sector *)

\* one timestamp in each of two seasons
RoseTimeValues == {<<2020, 7, 1, 0, 0>>, <<2021, 7, 1, 0, 0>>}

\* <<temperature_2m, precipitation>>: snowfall at 0.5 degrees, a dry hour at
\* 1.0 degrees
WeatherValues == {<<5, <<1, 10>>>>, <<10, Zero>>}

\* windspeed_10m [m/s]: the same speed in every sample
RoseWindValues == {1}

\* winddirection_10m: due north and due south
RoseDirValues == {<<0, 0>>, <<18000, 0>>}

RoseSample(t, w, u, d) ==
    [time |-> t, temperature_2m |-> w[1], precipitation |-> w[2],
     windspeed_10m |-> u, winddirection_10m |-> d]

RoseSamples ==
    {RoseSample(t, w, u, d) : t \in RoseTimeValues, w \in WeatherValues,
                              u \in RoseWindValues, d \in RoseDirValues}

InitRose ==
    /\ pc = "call"
    /\ df \in SeqsUpTo(RoseSamples, MaxLen + 1)
    /\ variant = "C1"
    /\ T = 1
    /\ F = 2
    /\ theta = One
    /\ Swe = Zero
    /\ hourly_wind_speeds = <<>>
    /\ hourly_wind_dirs = <<>>
    /\ direction = <<0, 0>>
    /\ Qt_arg = Zero
    /\ fence_type = NoValue
    /\ yearly_df = <<>>
    /\ monthly_df = <<>>
    /\ heights = <<>>
    /\ avg_sectors = NoValue
    /\ frames = <<>>
    /\ dt_arg = DEFAULT_DT
    /\ session_state = <<>>
    /\ stored_by = NoValue
    /\ page = NoValue
    /\ run_btn = FALSE
    /\ fetched = FALSE
    /\ ret = NoValue

CallAverageSector ==
    /\ pc = "call"
    /\ ret' = compute_average_sector(df)
    /\ pc' = "ret_rose"
    /\ UNCHANGED <<variant, df, T, F, theta, Swe, hourly_wind_speeds,
                   hourly_wind_dirs, direction, Qt_arg, fence_type, yearly_df,
                   monthly_df, heights, avg_sectors, frames, dt_arg,
                   sessionVars>>

NextRose == CallAverageSector

SpecRose == InitRose /\ [][NextRose]_vars

-----------------------------------------------------------------------------
(* Claims about compute_average_sector (SpecRose) *)

\* the transport of the first n rows of df from the arc of sector k
RECURSIVE RoseTransport(_, _)
RoseTransport(k, n) ==
    IF n = 0 THEN Zero
    ELSE RAdd(RoseTransport(k, n - 1),
              IF InArc(df[n].winddirection_10m, k)
              THEN Norm(Pow38(df[n].windspeed_10m) * 3600, 233847) ELSE Zero)

\* the number of seasons with a sample
SeasonCount == Cardinality({CalendarSeason(df[i].time) : i \in 1..Len(df)})

\* C15: compute_average_sector returns the unweighted mean of the per-season
\* sector profiles, each season with weight 1/(number of seasons) whatever
\* its sample count: every sector is the transport of all rows from its arc
\* divided by the number of seasons. One season from 0 degrees and one from
\* 180 degrees with the same speed give exactly sectors 0 and 8 non-zero,
\* both half the single-season value.
C15_UnweightedMean ==
    (pc = "ret_rose" /\ df # <<>>) =>
        /\ ret.raised = "none"
        /\ \A k \in 0..15 :
              ret.profile[k + 1] = RDiv(RoseTransport(k, Len(df)), R(SeasonCount))
        /\ (/\ Len(df) = 2
            /\ CalendarSeason(df[1].time) # CalendarSeason(df[2].time)
            /\ df[1].winddirection_10m = <<0, 0>>
            /\ df[2].winddirection_10m = <<18000, 0>>
            /\ df[1].windspeed_10m = df[2].windspeed_10m) =>
               /\ ret.profile[1] = ret.profile[9]
               /\ ret.profile[1] = Norm(Pow38(df[1].windspeed_10m) * 3600, 2 * 233847)
               /\ \A k \in 1..16 : ret.profile[k] # Zero <=> k \in {1, 9}

\* C15 witness: two samples from 0 degrees in one season and one sample from
\* 180 degrees in the next, all at 1 m/s: sector 0 holds half of two
\* samples, sector 8 half of one
C15_Witness ==
    /\ pc = "ret_rose"
    /\ Len(df) = 3
    /\ \A i \in 1..3 : df[i].windspeed_10m = 1
    /\ df[1].time = <<2020, 7, 1, 0, 0>> /\ df[1].winddirection_10m = <<0, 0>>
    /\ df[2].time = <<2020, 7, 1, 0, 0>> /\ df[2].winddirection_10m = <<0, 0>>
    /\ df[3].time = <<2021, 7, 1, 0, 0>> /\ df[3].winddirection_10m = <<18000, 0>>
    /\ ret.profile[1] = <<400, 25983>>
    /\ ret.profile[9] = <<200, 25983>>

\* C16: compute_average_sector returns 16 zeros, not an error, for a series
\* without samples, and a profile of exactly 16 entries for every series.
C16_SixteenEntries ==
    pc = "ret_rose" =>
        /\ ret.raised = "none"
        /\ Len(ret.profile) = 16
        /\ df = <<>> => \A k \in 1..16 : ret.profile[k] = <<0, 1>>

\* C16 witness: the empty series and its all-zero profile
C16_Witness ==
    /\ pc = "ret_rose"
    /\ df = <<>>
    /\ ret = [raised |-> "none", profile |-> [k \in 1..16 |-> <<0, 1>>]]

\* df with the temperature and precipitation of every row replaced by w
WithWeather(w) ==
    [i \in 1..Len(df) |-> RoseSample(df[i].time, w, df[i].windspeed_10m,
                                     df[i].winddirection_10m)]

\* C17: the wind-rose profile does not depend on temperature or
\* precipitation: the result for df is the result for the series with the
\* same timestamps, wind speeds and wind directions and one fixed weather in
\* every row, so any two series that agree on timestamps, wind speeds and
\* wind directions have the same compute_average_sector result.
C17_IndependentOfWeather ==
    pc = "ret_rose" =>
        \A w \in WeatherValues : compute_average_sector(WithWeather(w)) = ret

\* C17 witness: a snowfall hour and a dry hour, both windy, both counted
C17_Witness ==
    /\ pc = "ret_rose"
    /\ Len(df) = 2
    /\ df[1].time = df[2].time
    /\ df[1].temperature_2m = 5 /\ df[2].temperature_2m = 10
    /\ df[1].windspeed_10m = 1 /\ df[2].windspeed_10m = 1
    /\ df[1].winddirection_10m = <<0, 0>> /\ df[2].winddirection_10m = <<0, 0>>
    /\ ret.profile[1] = <<800, 25983>>

-----------------------------------------------------------------------------
(* The compute functions on DataFrame objects. frames is the heap: a frame   *)
(* is [columns, rows], a reference is a position in frames, and a call is    *)
(* handed the reference of the caller's frame.                               *)

\* the columns of the frame fetch_era5_hourly returns
InputColumns ==
    {"time", "temperature_2m", "precipitation", "windspeed_10m", "winddirection_10m"}

\* pd.DataFrame over the hourly samples d
DataFrame(d) == [columns |-> InputColumns, rows |-> d]

\* no copy: the function goes on with the caller's object
FrameCopy_Alias(h, ref) == [heap |-> h, ref |-> ref]

\* df.copy(): a new object with the same columns and values
FrameCopy(h, ref) == [heap |-> Append(h, h[ref]), ref |-> Len(h) + 1]

\* the row r with column name set to v
WithColumn(r, name, v) ==
    [c \in (DOMAIN r) \cup {name} |-> IF c = name THEN v ELSE r[c]]

\* df[name] = values, in place on the object ref
SetColumn(h, ref, name, values) ==
    [h EXCEPT ![ref] =
        [columns |-> h[ref].columns \cup {name},
         rows |-> [i \in 1..Len(h[ref].rows) |->
                      WithColumn(h[ref].rows[i], name, values[i])]]]

\* a group of a groupby, or df[mask]: a new object holding the rows idx
FrameTake(h, ref, idx) ==
    [heap |-> Append(h, [columns |-> h[ref].columns,
                         rows |-> [k \in 1..Len(idx) |-> h[ref].rows[idx[k]]]]),
     ref |-> Len(h) + 1]

\* the values of the derived columns, row by row
TimeColumn(rows) == [i \in 1..Len(rows) |-> rows[i].time]
SeasonColumn(rows) == [i \in 1..Len(rows) |-> season_year(rows[i].time)]

\* the name of the season column: "season" in 8_SnowDrift.py
SeasonColumnName(v) == IF v = "8" THEN "season" ELSE "season_year"

\* df["time"] = pd.to_datetime(df["time"]); df[season] = df["time"].apply(...)
SetSeason(h, ref, v) ==
    SetColumn(SetColumn(h, ref, "time", TimeColumn(h[ref].rows)),
              ref, SeasonColumnName(v), SeasonColumn(h[ref].rows))

\* df["month"] = df["time"].dt.month, not in compute_yearly_results
SetMonth(h, ref, v) ==
    IF v = "8" THEN h ELSE SetColumn(h, ref, "month",
                             [i \in 1..Len(h[ref].rows) |-> month(h[ref].rows[i].time)])

\* group["Swe_hourly"] = np.where(...) on the frame of one season
SetSwe(g) ==
    SetColumn(g.heap, g.ref, "Swe_hourly",
              [i \in 1..Len(g.heap[g.ref].rows) |-> Swe_hourly(g.heap[g.ref].rows[i])])

\* the season loop: each season's rows become a frame of their own (a group
\* and its copy, or the window df[mask]) which gets the Swe_hourly column
RECURSIVE SeasonLoop(_, _, _, _, _)
SeasonLoop(h, ref, windowed, keys, j) ==
    IF j > Len(keys) THEN h
    ELSE SeasonLoop(SetSwe(FrameTake(h, ref,
                        IF windowed THEN WindowRows(h[ref].rows, keys[j])
                        ELSE GroupRows(h[ref].rows, keys[j]))),
                    ref, windowed, keys, j + 1)

\* the body after df = df.copy(), on the working frame c.ref
ResultsBody(v, c) ==
    SeasonLoop(SetMonth(SetSeason(c.heap, c.ref, v), c.ref, v), c.ref, v = "8",
               SeasonKeys(c.heap[c.ref].rows), 1)

AverageSectorBody(v, c) ==
    SeasonLoop(SetSeason(c.heap, c.ref, v), c.ref, FALSE,
               SeasonKeys(c.heap[c.ref].rows), 1)

\* the heap after compute_year_and_month_results / compute_yearly_results
FramesAfterResults(v, h, ref) == ResultsBody(v, FrameCopy(h, ref))

\* the heap after compute_average_sector
FramesAfterAverageSector(v, h, ref) == AverageSectorBody(v, FrameCopy(h, ref))

-----------------------------------------------------------------------------
(* Calls of the compute functions on the caller's frame, frames[1] *)

InitFrame ==
    /\ pc = "call"
    /\ variant \in Variants
    /\ df \in SeqsUpTo(Samples, MaxLen)
    /\ frames = <<DataFrame(df)>>
    /\ dt_arg = DEFAULT_DT
    /\ session_state = <<>>
    /\ stored_by = NoValue
    /\ page = NoValue
    /\ run_btn = FALSE
    /\ fetched = FALSE
    /\ T = 1
    /\ F = 2
    /\ theta = Half
    /\ Swe = Zero
    /\ hourly_wind_speeds = <<>>
    /\ hourly_wind_dirs = <<>>
    /\ direction = <<0, 0>>
    /\ Qt_arg = Zero
    /\ fence_type = NoValue
    /\ yearly_df = <<>>
    /\ monthly_df = <<>>
    /\ heights = <<>>
    /\ avg_sectors = NoValue
    /\ ret = NoValue

CallResultsOnFrame ==
    /\ pc = "call"
    /\ ret' = compute_results(variant, frames[1].rows, T, F, theta)
    /\ frames' = FramesAfterResults(variant, frames, 1)
    /\ pc' = "ret_results"
    /\ UNCHANGED <<variant, df, T, F, theta, Swe, hourly_wind_speeds,
                   hourly_wind_dirs, direction, Qt_arg, fence_type, yearly_df,
                   monthly_df, heights, avg_sectors, dt_arg,
                   sessionVars>>

CallAverageSectorOnFrame ==
    /\ pc = "call"
    /\ ret' = compute_average_sector(frames[1].rows)
    /\ frames' = FramesAfterAverageSector(variant, frames, 1)
    /\ pc' = "ret_average"
    /\ UNCHANGED <<variant, df, T, F, theta, Swe, hourly_wind_speeds,
                   hourly_wind_dirs, direction, Qt_arg, fence_type, yearly_df,
                   monthly_df, heights, avg_sectors, dt_arg,
                   sessionVars>>

NextFrame == CallResultsOnFrame \/ CallAverageSectorOnFrame

SpecFrame == InitFrame /\ [][NextFrame]_vars

-----------------------------------------------------------------------------
(* Claims about the frames (SpecFrame) *)

\* C22: after compute_year_and_month_results (or compute_yearly_results) and
\* compute_average_sector return, the caller's DataFrame has the same columns
\* and the same values as before the call (no season, month or Swe_hourly
\* column), and the columns were added to frames of the function's own.
C22_CallerFrameUntouched ==
    pc \in {"ret_results", "ret_average"} =>
        /\ frames[1] = DataFrame(df)
        /\ frames[1].columns = InputColumns
        /\ \A i \in 1..Len(frames[1].rows) : DOMAIN frames[1].rows[i] = InputColumns
        /\ Len(frames) >= 2
        /\ SeasonColumnName(variant) \in frames[2].columns

\* C22 witness: compute_year_and_month_results returned on two samples of
\* two seasons; the working copy has the season and month columns, each
\* season frame has Swe_hourly, and the caller's frame has none of them
C22_Witness ==
    /\ pc = "ret_results"
    /\ variant = "C1"
    /\ Len(df) = 2
    /\ Len(frames) = 4
    /\ frames[1] = DataFrame(df)
    /\ frames[2].columns = InputColumns \cup {"season_year", "month"}
    /\ frames[3].columns = frames[2].columns \cup {"Swe_hourly"}
    /\ frames[4].columns = frames[3].columns
    /\ Len(frames[3].rows) = 1 /\ Len(frames[4].rows) = 1

-----------------------------------------------------------------------------
(* Direct calls of compute_Qupot *)

\* dt [s]: 0, one second, one minute, half an hour and the default hour
DtValues == {0, 1, 60, 1800, DEFAULT_DT}

InitQupot ==
    /\ pc = "call"
    /\ hourly_wind_speeds \in SeqsUpTo(WindValues, MaxWinds)
    /\ dt_arg \in DtValues
    /\ variant = "C1"
    /\ df = <<>>
    /\ T = 1
    /\ F = 2
    /\ theta = One
    /\ Swe = Zero
    /\ hourly_wind_dirs = <<>>
    /\ direction = <<0, 0>>
    /\ Qt_arg = Zero
    /\ fence_type = NoValue
    /\ yearly_df = <<>>
    /\ monthly_df = <<>>
    /\ heights = <<>>
    /\ avg_sectors = NoValue
    /\ frames = <<>>
    /\ session_state = <<>>
    /\ stored_by = NoValue
    /\ page = NoValue
    /\ run_btn = FALSE
    /\ fetched = FALSE
    /\ ret = NoValue

CallQupot ==
    /\ pc = "call"
    /\ ret' = compute_Qupot(hourly_wind_speeds, dt_arg)
    /\ pc' = "ret_qupot"
    /\ UNCHANGED <<variant, df, T, F, theta, Swe, hourly_wind_speeds,
                   hourly_wind_dirs, direction, Qt_arg, fence_type, yearly_df,
                   monthly_df, heights, avg_sectors, frames, dt_arg,
                   sessionVars>>

NextQupot == CallQupot

SpecQupot == InitQupot /\ [][NextQupot]_vars

\* C24: compute_Qupot returns 0 for an empty wind-speed sequence, for any dt
\* (the sum over no samples is 0, and 0 / 233847 = 0); no error is raised.
C24_EmptyWindZero ==
    (pc = "ret_qupot" /\ hourly_wind_speeds = <<>>) => ret = Zero

\* C24 witness: compute_Qupot([], 1800) returned 0
C24_Witness ==
    /\ pc = "ret_qupot"
    /\ hourly_wind_speeds = <<>>
    /\ dt_arg = 1800
    /\ session_state = <<>>
    /\ stored_by = NoValue
    /\ page = NoValue
    /\ run_btn = FALSE
    /\ fetched = FALSE
    /\ ret = Zero

-----------------------------------------------------------------------------
(* Direct calls of compute_sector_transport and compute_average_sector on    *)
(* winds of different speeds                                                 *)

\* hourly samples with one weather, the wind speeds 1 and 32 m/s, due north
\* and due south, in two seasons
BinningSamples ==
    {RoseSample(t, <<5, <<1, 10>>>>, u, d) :
        t \in RoseTimeValues, u \in {1, 32}, d \in RoseDirValues}

\* a call of compute_sector_transport on two lists, or a call of
\* compute_average_sector on a DataFrame
InitBinning ==
    /\ pc = "call"
    /\ \/ /\ hourly_wind_speeds \in SeqsUpTo(WindValues, MaxWinds)
          /\ hourly_wind_dirs \in SeqsUpTo(SectorDirValues, MaxWinds)
          /\ df = <<>>
       \/ /\ hourly_wind_speeds = <<>>
          /\ hourly_wind_dirs = <<>>
          /\ df \in SeqsUpTo(BinningSamples, MaxLen + 1) \ {<<>>}
    /\ variant = "C1"
    /\ T = 1
    /\ F = 2
    /\ theta = One
    /\ Swe = Zero
    /\ direction = <<0, 0>>
    /\ Qt_arg = Zero
    /\ fence_type = NoValue
    /\ yearly_df = <<>>
    /\ monthly_df = <<>>
    /\ heights = <<>>
    /\ avg_sectors = NoValue
    /\ frames = <<>>
    /\ dt_arg = DEFAULT_DT
    /\ session_state = <<>>
    /\ stored_by = NoValue
    /\ page = NoValue
    /\ run_btn = FALSE
    /\ fetched = FALSE
    /\ ret = NoValue

NextBinning == CallSectorTransport \/ CallAverageSector

SpecBinning == InitBinning /\ [][NextBinning]_vars

\* the wind speeds of the rows of df in season s
SeasonWinds(s) ==
    WindList(df, SelectSeq(RowNumbers(df), LAMBDA i : CalendarSeason(df[i].time) = s))

\* the sum of compute_Qupot over the seasons S
RECURSIVE QupotOverSeasons(_)
QupotOverSeasons(S) ==
    IF S = {} THEN Zero
    ELSE RAdd(compute_Qupot(SeasonWinds(CHOOSE s \in S : TRUE), DEFAULT_DT),
              QupotOverSeasons(S \ {CHOOSE s \in S : TRUE}))

\* the seasons with a sample in df
SeasonsOfDf == {CalendarSeason(df[i].time) : i \in 1..Len(df)}

\* C26: sector binning conserves wind power. For speed and direction lists of
\* equal length (directions within 0..360) the 16 entries returned by
\* compute_sector_transport sum to compute_Qupot of the speeds, and every
\* sample is added to exactly one sector, the one whose arc holds its
\* direction; the compute_average_sector profile sums to the mean of the
\* per-season Qupot values.
C26_BinningConserves ==
    /\ (/\ pc = "ret_sectors"
        /\ Len(hourly_wind_speeds) = Len(hourly_wind_dirs)
        /\ \A i \in 1..Len(hourly_wind_dirs) :
              hourly_wind_dirs[i][2] = 0 /\ hourly_wind_dirs[i][1] \in 0..36000) =>
           /\ ret.raised = "none"
           /\ RSum(ret.sectors) = compute_Qupot(hourly_wind_speeds, DEFAULT_DT)
           /\ \A k \in 0..15 :
                 ret.sectors[k + 1] = ArcTransport(k, Len(hourly_wind_speeds))
           /\ \A i \in 1..Len(hourly_wind_dirs) :
                 Cardinality({k \in 0..15 : InArc(hourly_wind_dirs[i], k)}) = 1
    /\ (pc = "ret_rose" /\ df # <<>>) =>
           /\ ret.raised = "none"
           /\ RSum(ret.profile) =
                 RDiv(QupotOverSeasons(SeasonsOfDf), R(Cardinality(SeasonsOfDf)))

\* C26 witness: 1 m/s from the north and 32 m/s from the south; sectors 0
\* and 8 hold one sample each and sum to the Qupot of both
C26_Witness ==
    /\ pc = "ret_sectors"
    /\ hourly_wind_speeds = <<1, 32>>
    /\ hourly_wind_dirs = <<<<0, 0>>, <<18000, 0>>>>
    /\ ret.raised = "none"
    /\ ret.sectors[1] = <<400, 25983>>
    /\ ret.sectors[9] = <<209715200, 25983>>
    /\ RSum(ret.sectors) = Norm(209715600, 25983)
    /\ compute_Qupot(hourly_wind_speeds, DEFAULT_DT) = Norm(209715600, 25983)

-----------------------------------------------------------------------------
(* Page runs of one browser session. Every action is one run of a page       *)
(* script from its first line to its end or its st.stop().                   *)

\* what fetch_era5_hourly does: it raises (requests error), or returns an
\* empty frame, or returns hourly samples
FetchOutcomes ==
    {[raised |-> "RequestException"], [raised |-> "none", df |-> <<>>]}
    \cup {[raised |-> "none", df |-> <<s>>] :
             s \in {RoseSample(t, <<5, <<1, 10>>>>, 1, <<0, 0>>) : t \in RoseTimeValues}}

InitSession ==
    /\ pc = "start"
    /\ session_state = <<>>
    /\ stored_by = NoValue
    /\ page = NoValue
    /\ run_btn = FALSE
    /\ fetched = FALSE
    /\ variant = "C1"
    /\ df = <<>>
    /\ T = 1
    /\ F = 2
    /\ theta = Half
    /\ Swe = Zero
    /\ hourly_wind_speeds = <<>>
    /\ hourly_wind_dirs = <<>>
    /\ direction = <<0, 0>>
    /\ Qt_arg = Zero
    /\ fence_type = NoValue
    /\ yearly_df = <<>>
    /\ monthly_df = <<>>
    /\ heights = <<>>
    /\ avg_sectors = NoValue
    /\ frames = <<>>
    /\ dt_arg = DEFAULT_DT
    /\ ret = NoValue

\* a run that ends before the computation: the script's frames do not exist
StopAt(where) ==
    /\ pc' = where
    /\ df' = <<>>
    /\ yearly_df' = <<>>
    /\ monthly_df' = <<>>
    /\ heights' = <<>>
    /\ avg_sectors' = NoValue
    /\ fence_type' = NoValue

\* the computation of a snow-drift page on the fetched frame d: seasonal
\* results, season filter, wind rose and fence heights
ComputeRun(v, d, ft, range) ==
    LET ComputeOn(out, kept) ==
            /\ df' = d
            /\ monthly_df' = out.monthly
            /\ yearly_df' = kept
            /\ avg_sectors' = compute_average_sector(d)
            /\ fence_type' = ft
            /\ heights' = [i \in 1..Len(kept) |->
                               compute_fence_height(v, kept[i].res.Qt, ft)]
            /\ pc' = AfterFilter(v, kept)
    IN  ComputeOn(compute_results(v, d, T, F, theta),
                  FilterSeasons(v, compute_results(v, d, T, F, theta).yearly, range))

\* a map page: the script can stop on its data before the coordinate section;
\* "Store coordinate" writes session_state["clicked_coord"] = (lat, lon)
RunMapPage(p) ==
    /\ page' = p
    /\ \E loaded \in BOOLEAN, pressed \in BOOLEAN, c \in CoordValues :
          IF loaded /\ pressed
          THEN /\ session_state' = SessionSet(session_state, "clicked_coord", c)
               /\ stored_by' = p
               /\ StopAt("map_stored")
          ELSE /\ UNCHANGED <<session_state, stored_by>>
               /\ StopAt(IF loaded THEN "map_shown" ELSE "map_stopped")
    /\ run_btn' = FALSE
    /\ fetched' = FALSE
    /\ UNCHANGED <<variant, T, F, theta, Swe, hourly_wind_speeds, hourly_wind_dirs,
                   direction, Qt_arg, frames, dt_arg, ret>>

\* a run of C1_SnowDrift.py or 8_SnowDrift.py: the coordinate gate, the
\* widgets, the run gate, then fetch and computation; a failed fetch and an
\* empty frame stop the run
RunGatedPage(p) ==
    /\ page' = p
    /\ variant' = PageVariant(p)
    /\ IF NoCoordinate(SessionGet(session_state, "clicked_coord"))
       THEN /\ run_btn' = FALSE
            /\ fetched' = FALSE
            /\ StopAt("stop_no_coord")
       ELSE \E pressed \in BOOLEAN :
               /\ run_btn' = pressed
               /\ fetched' = pressed
               /\ IF ~pressed THEN StopAt("stop_no_run")
                  ELSE \E outcome \in FetchOutcomes :
                          IF outcome.raised # "none" THEN StopAt("stop_fetch_failed")
                          ELSE IF outcome.df = <<>> THEN StopAt("stop_no_data")
                          ELSE \E ft \in PageFenceTypes, range \in YearRanges :
                                  ComputeRun(PageVariant(p), outcome.df, ft, range)
    /\ UNCHANGED <<session_state, stored_by, T, F, theta, Swe, hourly_wind_speeds,
                   hourly_wind_dirs, direction, Qt_arg, frames, dt_arg, ret>>

\* a run of SnowDrift.py: "Update coordinate" stores the number inputs'
\* (lat, lon); "Run Computation" fetches for them, stored or not, and the
\* fetch is not guarded: its exception ends the run
RunSnowDriftPage ==
    /\ page' = "SnowDrift"
    /\ variant' = "SnowDrift"
    /\ \E button \in {"none", "update", "run"}, c \in CoordValues :
          /\ IF button = "update"
             THEN /\ session_state' = SessionSet(session_state, "clicked_coord", c)
                  /\ stored_by' = "SnowDrift"
             ELSE UNCHANGED <<session_state, stored_by>>
          /\ run_btn' = (button = "run")
          /\ fetched' = (button = "run")
          /\ IF button # "run" THEN StopAt("stop_no_run")
             ELSE \E outcome \in FetchOutcomes :
                     IF outcome.raised # "none" THEN StopAt("fetch_exception")
                     ELSE \E ft \in PageFenceTypes, range \in YearRanges :
                             ComputeRun("SnowDrift", outcome.df, ft, range)
    /\ UNCHANGED <<T, F, theta, Swe, hourly_wind_speeds, hourly_wind_dirs,
                   direction, Qt_arg, frames, dt_arg, ret>>

NextSession ==
    \/ \E p \in MapPages : RunMapPage(p)
    \/ \E p \in GatedPages : RunGatedPage(p)
    \/ RunSnowDriftPage

SpecSession == InitSession /\ [][NextSession]_vars

-----------------------------------------------------------------------------
(* Claims about the session (SpecSession) *)

\* the latest run went on to the snow-drift computation
Computed == pc \in {"done", "stopped", "KeyError"}

=============================================================================
